---------------------------- MODULE Spec2Model ----------------------------
(***************************************************************************)
(* A model of the colouring game of jagnaki/projekt-kolorowanki:           *)
(*   src/triangulation.py  ImageTriangulation (contour sampling, interior  *)
(*                         points, point-in-polygon, triangle filter)      *)
(*   src/coloring_game.py  ColoringGame (mesh, colour assignment, sliders, *)
(*                         key loop)                                       *)
(*   src/main.py           main (the command-line mode)                    *)
(*   src/utils.py          validate_parameters                             *)
(* Points are pairs <<x, y>> of integers.  The float arithmetic of the     *)
(* source is modelled by exact rational arithmetic on integer numerators   *)
(* and denominators; int() is truncation toward zero.  Sequences are       *)
(* 1-based here and 0-based in the source: a 0-based index i of the source *)
(* is position i + 1 of the sequence.                                      *)
(***************************************************************************)
EXTENDS Integers, Sequences, FiniteSets, TLC

VARIABLES
    pc,     \* where the program is: "call" / "done" around the application of
            \* a function checked on its own, "select" / "main" / "exit" in run
    call,   \* the arguments of the function checked on its own
    ret,    \* its result once pc = "done"
    original_image,         \* 0 for None, else the number of the loaded image file
    image_selected,
    running,
    n_contour_points,       \* triangulator.n_contour_points
    interior_density,       \* triangulator.interior_density
    triangles,
    triangle_colors,        \* position in triangles -> BGR colour
    current_color_index,
    dragging_contour,
    dragging_interior,
    density_window_visible, \* the local variable of run
    lbutton_down            \* the left mouse button is held down

gameVars ==
    <<original_image, image_selected, running, n_contour_points,
      interior_density, triangles, triangle_colors, current_color_index,
      dragging_contour, dragging_interior, density_window_visible,
      lbutton_down>>

vars == <<pc, call, ret, gameVars>>

-----------------------------------------------------------------------------
(* Arithmetic helpers *)

Abs(a) == IF a < 0 THEN -a ELSE a

Min(a, b) == IF a < b THEN a ELSE b

Max(a, b) == IF a > b THEN a ELSE b

\* Python's int() applied to the float num/den (den # 0): truncation toward zero.
int(num, den) ==
    LET n == IF den < 0 THEN -num ELSE num
        d == Abs(den)
    IN  IF n >= 0 THEN n \div d ELSE -((-n) \div d)

\* np.sqrt of a squared length; the contours of the model have segments of
\* integer length, so the root is exact.
sqrt(s) == CHOOSE r \in 0..s : r * r = s

IsSquare(s) == \E r \in 0..s : r * r = s

RECURSIVE SeqSum(_, _)
SeqSum(s, j) == IF j = 0 THEN 0 ELSE s[j] + SeqSum(s, j - 1)

-----------------------------------------------------------------------------
(* ImageTriangulation.place_points_on_contour *)

\* np.sqrt(np.sum(np.diff(contour, axis=0) ** 2, axis=1))
distances(contour) ==
    [j \in 1..(Len(contour) - 1) |->
        sqrt((contour[j + 1][1] - contour[j][1]) * (contour[j + 1][1] - contour[j][1])
           + (contour[j + 1][2] - contour[j][2]) * (contour[j + 1][2] - contour[j][2]))]

\* np.cumsum
cumsum(d) == [j \in 1..Len(d) |-> SeqSum(d, j)]

\* np.searchsorted(cumulative, num/den), side='left': the number of entries
\* strictly below the target, i.e. the 0-based index of the first entry >= it.
searchsorted(cumulative, num, den) ==
    Cardinality({j \in 1..Len(cumulative) : cumulative[j] * den < num})

\* The segment index the loop body settles on for a raw searchsorted index
\* (lines 187-191): clamp to the last segment, and never 0.
clamp_idx(idx, nseg) ==
    LET a == IF idx >= nseg THEN nseg - 1 ELSE idx
    IN  IF a = 0 THEN 1 ELSE a

\* One iteration of the loop (lines 181-196) for i in 1..n_points-1, after the
\* final int() conversion of line 199.  target_distance = i * total / n_points.
\* idx is the source's 0-based index: distances[idx] is d[idx + 1],
\* cumulative[idx - 1] is cum[idx], contour[idx - 1] is contour[idx] and
\* contour[idx] is contour[idx + 1].
sample_point(contour, d, cum, total, n_points, i) ==
    LET idx  == clamp_idx(searchsorted(cum, i * total, n_points), Len(d))
        \* ratio = rnum / rden, with rnum / n_points = target - cumulative[idx-1]
        rnum == IF d[idx + 1] # 0 THEN i * total - n_points * cum[idx] ELSE 0
        rden == IF d[idx + 1] # 0 THEN n_points * d[idx + 1] ELSE 1
        a    == contour[idx]
        b    == contour[idx + 1]
    IN  << int(a[1] * rden + rnum * (b[1] - a[1]), rden),
           int(a[2] * rden + rnum * (b[2] - a[2]), rden) >>

\* Whether iteration i indexes distances out of range (IndexError at line 194).
sample_raises(d, cum, total, n_points, i) ==
    clamp_idx(searchsorted(cum, i * total, n_points), Len(d)) >= Len(d)

place_points_on_contour(contour, n_points) ==
    LET d     == distances(contour)
        cum   == cumsum(d)
    IN  IF Len(cum) = 0
        THEN \* cumulative[-1] on an empty array (line 170)
             [raised |-> "IndexError", points |-> << >>]
        ELSE LET total == cum[Len(cum)]
             IN  IF total = 0
                 THEN [raised |-> "none",
                       points |-> SubSeq(contour, 1, Min(n_points, Len(contour)))]
                 ELSE IF \E i \in 1..(n_points - 1) :
                            sample_raises(d, cum, total, n_points, i)
                      THEN [raised |-> "IndexError", points |-> << >>]
                      ELSE [raised |-> "none",
                            points |->
                              [k \in 1..n_points |->
                                 IF k = 1 THEN contour[1]
                                 ELSE sample_point(contour, d, cum, total,
                                                   n_points, k - 1)]]


-----------------------------------------------------------------------------
(* ImageTriangulation.point_in_polygon and generate_interior_points *)

\* The loop body with both ends of an edge's y-extent counted (y >= min).
edge_toggles_closed(x, y, p1, p2) ==
    /\ y >= Min(p1[2], p2[2])
    /\ y <= Max(p1[2], p2[2])
    /\ p1[2] # p2[2]
    /\ x <= Max(p1[1], p2[1])
    /\ \/ p1[1] = p2[1]
       \/ IF p2[2] > p1[2]
          THEN (x - p1[1]) * (p2[2] - p1[2]) <= (y - p1[2]) * (p2[1] - p1[1])
          ELSE (x - p1[1]) * (p2[2] - p1[2]) >= (y - p1[2]) * (p2[1] - p1[1])
\* One pass of the loop body (lines 99-110) for the edge p1 -> p2: whether it
\* toggles the inside flag.  x <= xinters, with
\* xinters = (y - p1y) * (p2x - p1x) / (p2y - p1y) + p1x, is compared exactly
\* by multiplying with p2y - p1y, which is not 0 when the line is reached.
edge_toggles(x, y, p1, p2) ==
    /\ y > Min(p1[2], p2[2])
    /\ y <= Max(p1[2], p2[2])
    /\ x <= Max(p1[1], p2[1])
    /\ \/ p1[1] = p2[1]
       \/ IF p2[2] > p1[2]
          THEN (x - p1[1]) * (p2[2] - p1[2]) <= (y - p1[2]) * (p2[1] - p1[1])
          ELSE (x - p1[1]) * (p2[2] - p1[2]) >= (y - p1[2]) * (p2[1] - p1[1])

\* The edges without the one from the last vertex back to the first.
polygon_edges_open(polygon_points) ==
    [i \in 1..(Len(polygon_points) - 1) |->
        <<polygon_points[i], polygon_points[i + 1]>>]

\* The edges the loop walks: i in 1..n pairs polygon[i - 1] with polygon[i % n].
polygon_edges(polygon_points) ==
    LET n == Len(polygon_points)
    IN  [i \in 1..n |-> <<polygon_points[i], polygon_points[(i % n) + 1]>>]

\* inside starts False and is negated once per toggling edge.
point_in_polygon(point, polygon_points) ==
    LET e == polygon_edges(polygon_points)
    IN  Cardinality({i \in 1..Len(e) :
            edge_toggles(point[1], point[2], e[i][1], e[i][2])}) % 2 = 1

SeqMin(s, c) == CHOOSE m \in {s[i][c] : i \in 1..Len(s)} :
                    \A i \in 1..Len(s) : m <= s[i][c]

SeqMax(s, c) == CHOOSE m \in {s[i][c] : i \in 1..Len(s)} :
                    \A i \in 1..Len(s) : m >= s[i][c]

\* list(range(start, stop, step)) for step > 0
range(start, stop, step) ==
    LET n == IF stop > start THEN ((stop - start - 1) \div step) + 1 ELSE 0
    IN  [k \in 1..n |-> start + (k - 1) * step]

\* A lattice that runs up to and including the bounding box's upper sides.
lattice_to_max(min_x, min_y, max_x, max_y, step_x, step_y) ==
    LET ys == range(min_y + step_y, max_y + 1, step_y)
        xs == range(min_x + step_x, max_x + 1, step_x)
    IN  [m \in 1..(Len(ys) * Len(xs)) |->
            << xs[((m - 1) % Len(xs)) + 1], ys[((m - 1) \div Len(xs)) + 1] >>]

\* The lattice of lines 232-233 in visiting order: y outer, x inner.
lattice(min_x, min_y, max_x, max_y, step_x, step_y) ==
    LET ys == range(min_y + step_y, max_y, step_y)
        xs == range(min_x + step_x, max_x, step_x)
    IN  [m \in 1..(Len(ys) * Len(xs)) |->
            << xs[((m - 1) % Len(xs)) + 1], ys[((m - 1) \div Len(xs)) + 1] >>]

\* The bounding-box centre of lines 240-241: int((min + max) / 2).
box_center(min_x, min_y, max_x, max_y) ==
    << int(min_x + max_x, 2), int(min_y + max_y, 2) >>

\* The test on a lattice point without its raster bounds.
lattice_keep_unbounded(p, contour_points, img_shape) ==
    point_in_polygon(p, contour_points)

\* The test of lines 235-236 on a lattice point; img_shape is <<height, width>>.
lattice_keep(p, contour_points, img_shape) ==
    /\ 0 <= p[1] /\ p[1] < img_shape[2]
    /\ 0 <= p[2] /\ p[2] < img_shape[1]
    /\ point_in_polygon(p, contour_points)

\* density is self.interior_density.
generate_interior_points(contour_points, img_shape, density) ==
    IF Len(contour_points) < 3 THEN << >>
    ELSE
      LET min_x  == SeqMin(contour_points, 1)
          min_y  == SeqMin(contour_points, 2)
          max_x  == SeqMax(contour_points, 1)
          max_y  == SeqMax(contour_points, 2)
          step_x == Max((max_x - min_x) \div density, 5)
          step_y == Max((max_y - min_y) \div density, 5)
          keep(p) == lattice_keep(p, contour_points, img_shape)
          grid   == SelectSeq(lattice(min_x, min_y, max_x, max_y, step_x, step_y),
                              keep)
          center == box_center(min_x, min_y, max_x, max_y)
      IN  IF point_in_polygon(center, contour_points)
          THEN Append(grid, center)
          ELSE grid

-----------------------------------------------------------------------------
(* ImageTriangulation.rect_contains and create_triangulation *)

\* A rectangle test with the upper bounds left out.
rect_contains_lower(rect, point) ==
    ~(point[1] < rect[1] \/ point[2] < rect[2])

\* rect is <<x_min, y_min, x_max, y_max>>.
rect_contains(rect, point) ==
    IF point[1] < rect[1] \/ point[2] < rect[2] THEN FALSE
    ELSE IF point[1] > rect[3] \/ point[2] > rect[4] THEN FALSE
    ELSE TRUE

\* The triangle's first vertex in place of its centre.
triangle_center_vertex(pt1, pt2, pt3) == pt1

\* The centre tested at lines 292-293: integer (floor) division of the sums.
triangle_center(pt1, pt2, pt3) ==
    << (pt1[1] + pt2[1] + pt3[1]) \div 3, (pt1[2] + pt2[2] + pt3[2]) \div 3 >>

\* The filter of lines 286-295 on one simplex <<pt1, pt2, pt3>>.
triangle_kept(t, contour_points, img_shape) ==
    LET rect == <<0, 0, img_shape[2], img_shape[1]>>
    IN  /\ rect_contains(rect, t[1])
        /\ rect_contains(rect, t[2])
        /\ rect_contains(rect, t[3])
        /\ point_in_polygon(triangle_center(t[1], t[2], t[3]), contour_points)

\* scipy.spatial.Delaunay, called at line 274, by its contract.  d lies
\* strictly inside the circle through a, b and c:
InCircumcircle(a, b, c, d) ==
    LET ax == a[1] - d[1]
        ay == a[2] - d[2]
        bx == b[1] - d[1]
        by == b[2] - d[2]
        cx == c[1] - d[1]
        cy == c[2] - d[2]
        det == (ax * ax + ay * ay) * (bx * cy - cx * by)
             - (bx * bx + by * by) * (ax * cy - cx * ay)
             + (cx * cx + cy * cy) * (ax * by - bx * ay)
        orient == (b[1] - a[1]) * (c[2] - a[2]) - (b[2] - a[2]) * (c[1] - a[1])
    IN  det * orient > 0

PointLess(a, b) == a[1] < b[1] \/ (a[1] = b[1] /\ a[2] < b[2])

\* The triangles with an empty circumcircle over the distinct points, each
\* with its vertices in increasing order.  Where four or more points lie on
\* one empty circle the library returns those of these triangles that tile
\* the circle's polygon one way; the model keeps every candidate.
DelaunayTriangles(all_points) ==
    LET P == {all_points[i] : i \in 1..Len(all_points)}
    IN  UNION {UNION {{<<a, b, c>> : c \in {q \in P :
                          /\ PointLess(b, q)
                          /\ (b[1] - a[1]) * (q[2] - a[2])
                               # (b[2] - a[2]) * (q[1] - a[1])
                          /\ \A d \in P : ~InCircumcircle(a, b, q, d)}} :
                      b \in {q \in P : PointLess(a, q)}} :
               a \in P}

TriLess(s, t) ==
    \/ PointLess(s[1], t[1])
    \/ (s[1] = t[1] /\ PointLess(s[2], t[2]))
    \/ (s[1] = t[1] /\ s[2] = t[2] /\ PointLess(s[3], t[3]))

\* tri.simplices as a list; the order of the simplices is the library's, here
\* the increasing one.
RECURSIVE SortTriangles(_)
SortTriangles(T) ==
    IF T = {} THEN << >>
    ELSE LET m == CHOOSE t \in T : \A u \in T \ {t} : TriLess(t, u)
         IN  <<m>> \o SortTriangles(T \ {m})

\* Delaunay raises (QhullError) when no triangle exists: fewer than three
\* distinct points, or all of them on one line.
delaunay_raises(simplices) == simplices = {}

\* The exception the try block of lines 269-297 ends with, "none" when it
\* runs to its return: the Delaunay call is its only statement that raises.
try_raises(all_points) ==
    IF delaunay_raises(DelaunayTriangles(all_points)) THEN "QhullError"
    ELSE "none"

\* The classes the handler of line 299 names: Exception and its subclasses.
Exception == {"QhullError", "ValueError", "IndexError"}

\* A handler for ValueError alone.
except_catches_value_error(exc) == exc = "ValueError"

\* except Exception as e (line 299).
except_catches(exc) == exc \in Exception

\* An exception leaves create_triangulation: one raised inside the try block
\* that the handler does not catch.  Lines 260-267 raise nothing.
create_triangulation_raises(contour_points, interior_points, img_shape) ==
    /\ Len(contour_points) >= 3
    /\ Len(contour_points \o interior_points) >= 3
    /\ try_raises(contour_points \o interior_points) # "none"
    /\ ~except_catches(try_raises(contour_points \o interior_points))

\* The triangulation of the boundary points alone.
create_triangulation_boundary_only(contour_points, interior_points, img_shape) ==
    IF Len(contour_points) < 3 THEN << >>
    ELSE LET simplices == DelaunayTriangles(contour_points)
             keep(t) == triangle_kept(t, contour_points, img_shape)
         IN  IF delaunay_raises(simplices) THEN << >>
             ELSE SelectSeq(SortTriangles(simplices), keep)

create_triangulation(contour_points, interior_points, img_shape) ==
    IF Len(contour_points) < 3 THEN << >>
    ELSE LET all_points == contour_points \o interior_points
             simplices == DelaunayTriangles(all_points)
             keep(t) == triangle_kept(t, contour_points, img_shape)
         IN  IF Len(all_points) < 3 THEN << >>
             ELSE IF delaunay_raises(simplices) THEN << >>
             ELSE SelectSeq(SortTriangles(simplices), keep)

-----------------------------------------------------------------------------
(* ColoringGame: constructor values, the hit test and the rebuild *)

min_contour_points == 10

max_contour_points == 100

min_interior_density == 2

max_interior_density == 20

window_width == 800

window_height == 600

\* create_density_control_window
slider_width == 280

slider_x == 20

slider_y_contour == 40

slider_y_interior == 100

\* create_color_selection_window
color_height == 60

color_width == 40

colors_per_row == 12

\* original_image.shape after the resize of load_image: <<height, width>>.
image_shape == <<window_height, window_width>>

\* The palette self.colors, in BGR.
colors ==
    << <<255, 0, 0>>, <<0, 255, 0>>, <<0, 0, 255>>, <<255, 255, 0>>,
       <<255, 0, 255>>, <<0, 255, 255>>,
       <<0, 165, 255>>, <<0, 69, 255>>, <<0, 140, 255>>, <<0, 0, 255>>,
       <<85, 107, 47>>,
       <<128, 0, 128>>, <<205, 92, 92>>, <<139, 69, 19>>, <<160, 82, 45>>,
       <<75, 0, 130>>,
       <<255, 182, 193>>, <<221, 160, 221>>, <<173, 216, 230>>,
       <<144, 238, 144>>, <<255, 255, 224>>,
       <<42, 42, 165>>, <<19, 69, 139>>, <<35, 142, 107>>, <<87, 139, 46>>,
       <<45, 82, 160>>,
       <<192, 192, 192>>, <<0, 215, 255>>, <<130, 130, 130>>,
       <<105, 105, 105>>, <<0, 0, 0>>, <<255, 255, 255>>,
       <<0, 255, 127>>, <<255, 20, 147>>, <<0, 191, 255>>, <<50, 205, 50>>,
       <<255, 0, 255>>,
       <<238, 130, 238>>, <<218, 112, 214>>, <<186, 85, 211>>,
       <<147, 112, 219>>, <<123, 104, 238>>, <<106, 90, 205>>,
       <<72, 61, 139>>, <<25, 25, 112>> >>

\* The empty dictionary {} of triangle_colors.
no_colors == [i \in {} |-> <<0, 0, 0>>]

\* The attributes after ColoringGame.__init__; the dragging flags, set first
\* by create_density_control_window, and run's density_window_visible start
\* as False.
Constructed ==
    /\ original_image = 0
    /\ image_selected = FALSE
    /\ running = TRUE
    /\ n_contour_points = 30
    /\ interior_density = 8
    /\ triangles = << >>
    /\ triangle_colors = no_colors
    /\ current_color_index = 0
    /\ dragging_contour = FALSE
    /\ dragging_interior = FALSE
    /\ density_window_visible = FALSE
    /\ lbutton_down = FALSE

sign(p1, p2, p3) ==
    (p1[1] - p3[1]) * (p2[2] - p3[2]) - (p2[1] - p3[1]) * (p1[2] - p3[2])

\* The test with a zero sign counted as outside.
point_in_triangle_strict(point, triangle) ==
    LET d1 == sign(point, triangle[1], triangle[2])
        d2 == sign(point, triangle[2], triangle[3])
        d3 == sign(point, triangle[3], triangle[1])
    IN  (d1 > 0 /\ d2 > 0 /\ d3 > 0) \/ (d1 < 0 /\ d2 < 0 /\ d3 < 0)

point_in_triangle(point, triangle) ==
    LET d1 == sign(point, triangle[1], triangle[2])
        d2 == sign(point, triangle[2], triangle[3])
        d3 == sign(point, triangle[3], triangle[1])
        has_neg == d1 < 0 \/ d2 < 0 \/ d3 < 0
        has_pos == d1 > 0 \/ d2 > 0 \/ d3 > 0
    IN  ~(has_neg /\ has_pos)

\* The loop body with a contour skipped also when it has fewer than three
\* interior points.
contour_triangles_needs_interior(contour, n_points, density, img_shape) ==
    LET contour_points == place_points_on_contour(contour, n_points).points
        interior_points ==
            generate_interior_points(contour_points, img_shape, density)
    IN  IF Len(contour_points) < 3 \/ Len(interior_points) < 3 THEN << >>
        ELSE create_triangulation(contour_points, interior_points, img_shape)

\* One pass of the loop of process_image (lines 290-308): the triangles one
\* contour adds to self.triangles.
contour_triangles(contour, n_points, density, img_shape) ==
    LET contour_points == place_points_on_contour(contour, n_points).points
    IN  IF Len(contour_points) < 3 THEN << >>
        ELSE create_triangulation(
                 contour_points,
                 generate_interior_points(contour_points, img_shape, density),
                 img_shape)

\* The loop left at the first contour that adds no triangles.
RECURSIVE process_image_until_empty(_, _, _, _)
process_image_until_empty(contours, n_points, density, img_shape) ==
    IF Len(contours) = 0 THEN << >>
    ELSE IF contour_triangles(Head(contours), n_points, density, img_shape) = << >>
         THEN << >>
         ELSE contour_triangles(Head(contours), n_points, density, img_shape)
                  \o process_image_until_empty(Tail(contours), n_points,
                                               density, img_shape)

\* self.triangles after process_image for the contours that
\* get_contours_from_image returned, in their order.
RECURSIVE process_image(_, _, _, _)
process_image(contours, n_points, density, img_shape) ==
    IF Len(contours) = 0 THEN << >>
    ELSE contour_triangles(Head(contours), n_points, density, img_shape)
             \o process_image(Tail(contours), n_points, density, img_shape)

\* The exception that leaves process_image: place_points_on_contour is called
\* outside any try block (line 292), the other calls of the loop raise nothing.
process_image_raises(contours, n_points) ==
    IF \E i \in 1..Len(contours) :
           place_points_on_contour(contours[i], n_points).raised # "none"
    THEN "IndexError"
    ELSE "none"

-----------------------------------------------------------------------------
(* The contour sampler checked as a pure function: Init draws a contour and *)
(* a point count, the one action applies place_points_on_contour.           *)

\* Vertices the contours of the sampler check are drawn from: axis-aligned
\* segments of length 3, 4 and 8 and the diagonals of the 3-4-5 triangle.
SamplerPoints == {<<0, 0>>, <<4, 0>>, <<8, 0>>, <<0, 3>>, <<4, 3>>, <<8, 3>>}

MaxContourLen == 4

MaxK == 4

SeqsUpTo(S, n) == UNION {[1..m -> S] : m \in 1..n}

SqDist(a, b) == (b[1] - a[1]) * (b[1] - a[1]) + (b[2] - a[2]) * (b[2] - a[2])

\* Contours whose segments all have integer length.
SamplerContours ==
    {c \in SeqsUpTo(SamplerPoints, MaxContourLen) :
        \A j \in 1..(Len(c) - 1) : IsSquare(SqDist(c[j], c[j + 1]))}

SamplerCalls ==
    [fn : {"place_points_on_contour"}, contour : SamplerContours, n_points : 3..MaxK]

SamplerInit ==
    /\ pc = "call"
    /\ call \in SamplerCalls
    /\ ret = "none"
    /\ Constructed

CallSampler ==
    /\ pc = "call"
    /\ call.fn = "place_points_on_contour"
    /\ ret' = place_points_on_contour(call.contour, call.n_points)
    /\ pc' = "done"
    /\ UNCHANGED call
    /\ UNCHANGED gameVars

SamplerNext == CallSampler

SamplerSpec == SamplerInit /\ [][SamplerNext]_vars

\* The polyline's total length, from the segments themselves.
Perimeter(contour) == SeqSum(distances(contour), Len(contour) - 1)

\* p lies on the closed segment from a to b.
OnSegment(p, a, b) ==
    /\ (b[1] - a[1]) * (p[2] - a[2]) = (b[2] - a[2]) * (p[1] - a[1])
    /\ Min(a[1], b[1]) <= p[1] /\ p[1] <= Max(a[1], b[1])
    /\ Min(a[2], b[2]) <= p[2] /\ p[2] <= Max(a[2], b[2])

OnPolyline(p, contour) ==
    \E j \in 1..(Len(contour) - 1) : OnSegment(p, contour[j], contour[j + 1])

\* The point of the polyline at arc length num/den from the first vertex
\* (0 < num/den < perimeter), after int(): the segment j that contains the
\* distance, entered at cumulative length cum[j - 1].
ArcPoint(contour, num, den) ==
    LET d     == distances(contour)
        cum   == cumsum(d)
        j     == CHOOSE m \in 1..Len(d) :
                    /\ cum[m] * den >= num
                    /\ \A l \in 1..(m - 1) : cum[l] * den < num
        start == IF j = 1 THEN 0 ELSE cum[j - 1]
        rnum  == num - den * start
        rden  == den * d[j]
        a     == contour[j]
        b     == contour[j + 1]
    IN  << int(a[1] * rden + rnum * (b[1] - a[1]), rden),
           int(a[2] * rden + rnum * (b[2] - a[2]), rden) >>

SamplerDone == pc = "done" /\ call.fn = "place_points_on_contour"

\* C2: for every contour with nonzero perimeter and every K >= 3, every point
\* returned by place_points_on_contour lies on the input polyline, on some
\* segment between two consecutive contour vertices.
C2_PointsOnPolyline ==
    (SamplerDone /\ Perimeter(call.contour) # 0 /\ ret.raised = "none")
        => \A k \in 1..Len(ret.points) : OnPolyline(ret.points[k], call.contour)

\* C3: for every contour with nonzero perimeter L and every k in 1..K-1, the
\* k-th returned point is the point of the polyline at arc length k*(L/K)
\* from the first vertex (in integer coordinates).
C3_PointAtArcLength ==
    (SamplerDone /\ Perimeter(call.contour) # 0 /\ ret.raised = "none")
        => \A k \in 1..(call.n_points - 1) :
              ret.points[k + 1] =
                  ArcPoint(call.contour, k * Perimeter(call.contour), call.n_points)

\* C4: for every contour with nonzero perimeter and every valid K,
\* place_points_on_contour returns exactly K points and point 0 is the
\* contour's first vertex.
C4_ExactlyKPoints ==
    (SamplerDone /\ Perimeter(call.contour) # 0)
        => /\ ret.raised = "none"
           /\ Len(ret.points) = call.n_points
           /\ ret.points[1] = call.contour[1]

\* C5: when all vertices coincide (total length 0, a single vertex included),
\* place_points_on_contour raises nothing and returns the first K raw
\* vertices, all of them when there are fewer than K.
C5_DegenerateVerbatim ==
    (SamplerDone /\ \A j \in 1..Len(call.contour) : call.contour[j] = call.contour[1])
        => /\ ret.raised = "none"
           /\ ret.points = SubSeq(call.contour, 1, Min(call.n_points, Len(call.contour)))

-----------------------------------------------------------------------------
(* The interior point generator checked as a pure function: Init draws a    *)
(* simple polygon, a raster shape and a density, the one action applies     *)
(* generate_interior_points.                                                *)

MaxD == 4

MaxSide == 12

MaxOrigin == 2

\* Vertex coordinates of the triangles and quadrilaterals of the model.
GridCoords == {0, 10, 20}

GridPoints == GridCoords \X GridCoords

\* The vertex after vertex i on the closed boundary of poly.
Succ(poly, i) == poly[(i % Len(poly)) + 1]

Cross(a, b, c) == (b[1] - a[1]) * (c[2] - a[2]) - (b[2] - a[2]) * (c[1] - a[1])

Dot(a, b, c) == (a[1] - b[1]) * (c[1] - b[1]) + (a[2] - b[2]) * (c[2] - b[2])

Sign(v) == IF v > 0 THEN 1 ELSE IF v < 0 THEN -1 ELSE 0

\* The closed segments a-b and c-d share a point.
SegmentsMeet(a, b, c, d) ==
    \/ /\ Sign(Cross(a, b, c)) * Sign(Cross(a, b, d)) < 0
       /\ Sign(Cross(c, d, a)) * Sign(Cross(c, d, b)) < 0
    \/ OnSegment(c, a, b) \/ OnSegment(d, a, b)
    \/ OnSegment(a, c, d) \/ OnSegment(b, c, d)

\* A simple polygon: distinct vertices, edges that are not neighbours do not
\* meet, and neighbouring edges share their common vertex only.
IsSimplePolygon(poly) ==
    LET n == Len(poly)
    IN  /\ n >= 3
        /\ \A i, j \in 1..n : i # j => poly[i] # poly[j]
        /\ \A i \in 1..n :
              LET a == poly[i]
                  b == Succ(poly, i)
                  c == Succ(poly, (i % n) + 1)
              IN  ~(Cross(a, b, c) = 0 /\ Dot(a, b, c) > 0)
        /\ \A i, j \in 1..n :
              (i < j /\ j # i + 1 /\ ~(i = 1 /\ j = n))
                  => ~SegmentsMeet(poly[i], Succ(poly, i), poly[j], Succ(poly, j))

GridPolygons ==
    {q \in [1..3 -> GridPoints] \cup [1..4 -> GridPoints] : IsSimplePolygon(q)}

\* The four corners of an axis-aligned square, from each corner and in both
\* directions of travel.
SquareCorners(ox, oy, side) ==
    << <<ox, oy>>, <<ox + side, oy>>, <<ox + side, oy + side>>, <<ox, oy + side>> >>

Rotations(q) ==
    {[i \in 1..4 |-> q[((i + r) % 4) + 1]] : r \in 0..3}
        \cup {[i \in 1..4 |-> q[((r + 4 - i) % 4) + 1]] : r \in 0..3}

Squares ==
    UNION {Rotations(SquareCorners(ox, oy, side)) :
             ox \in 0..MaxOrigin, oy \in 0..MaxOrigin, side \in 1..MaxSide}

InteriorPolygons == GridPolygons \cup Squares

\* Raster shapes <<height, width>>: one that holds every polygon of the model
\* and one that cuts them.
Rasters == {<<25, 25>>, <<10, 10>>}

InteriorCalls ==
    [fn : {"generate_interior_points"}, contour_points : InteriorPolygons,
     img_shape : Rasters, interior_density : 2..MaxD]

InteriorInit ==
    /\ pc = "call"
    /\ call \in InteriorCalls
    /\ ret = "none"
    /\ Constructed

CallInterior ==
    /\ pc = "call"
    /\ call.fn = "generate_interior_points"
    /\ ret' = generate_interior_points(call.contour_points, call.img_shape,
                                       call.interior_density)
    /\ pc' = "done"
    /\ UNCHANGED call
    /\ UNCHANGED gameVars

InteriorNext == CallInterior

InteriorSpec == InteriorInit /\ [][InteriorNext]_vars

InteriorDone == pc = "done" /\ call.fn = "generate_interior_points"

OnBoundary(p, poly) ==
    \E i \in 1..Len(poly) : OnSegment(p, poly[i], Succ(poly, i))

\* The edge a-b passes strictly above p: a vertical ray from p crosses it.
CrossesAbove(p, a, b) ==
    /\ a[1] # b[1]
    /\ Min(a[1], b[1]) <= p[1] /\ p[1] < Max(a[1], b[1])
    /\ IF b[1] > a[1]
       THEN (p[1] - a[1]) * (b[2] - a[2]) > (p[2] - a[2]) * (b[1] - a[1])
       ELSE (p[1] - a[1]) * (b[2] - a[2]) < (p[2] - a[2]) * (b[1] - a[1])

\* p is in the open interior of the polygon, decided without
\* point_in_polygon: p is off the boundary and a vertical ray from p crosses
\* the boundary an odd number of times.
StrictlyInside(p, poly) ==
    /\ ~OnBoundary(p, poly)
    /\ Cardinality({i \in 1..Len(poly) : CrossesAbove(p, poly[i], Succ(poly, i))})
         % 2 = 1

InRaster(p, img_shape) ==
    0 <= p[1] /\ p[1] < img_shape[2] /\ 0 <= p[2] /\ p[2] < img_shape[1]

\* C6 (as claimed): every point returned by generate_interior_points for a
\* simple polygon lies strictly inside the polygon, none on an edge or vertex
\* and none outside.
C6_StrictlyInside ==
    InteriorDone
        => \A k \in 1..Len(ret) : StrictlyInside(ret[k], call.contour_points)

\* C6 (amended): every point returned by generate_interior_points for a
\* simple polygon lies inside the polygon or on its boundary, never outside.
C6_NeverOutside ==
    InteriorDone
        => \A k \in 1..Len(ret) :
              \/ StrictlyInside(ret[k], call.contour_points)
              \/ OnBoundary(ret[k], call.contour_points)

\* C6 witness: a call that returned a point on an edge of the polygon and a
\* point of the open interior.
C6_Witness ==
    /\ InteriorDone
    /\ \E k \in 1..Len(ret) : OnBoundary(ret[k], call.contour_points)
    /\ \E k \in 1..Len(ret) : StrictlyInside(ret[k], call.contour_points)

IsCallOnSquare ==
    /\ InteriorDone
    /\ call.contour_points \in Squares
    /\ call.interior_density = 2

\* C7: for a square given by its 4 exact corners and density 2, every
\* returned point is strictly between the square's min and max on both axes.
C7_SquareStrictlyInside ==
    IsCallOnSquare
        => \A k \in 1..Len(ret) :
              /\ SeqMin(call.contour_points, 1) < ret[k][1]
              /\ ret[k][1] < SeqMax(call.contour_points, 1)
              /\ SeqMin(call.contour_points, 2) < ret[k][2]
              /\ ret[k][2] < SeqMax(call.contour_points, 2)

\* C7 witness: a square at density 2 for which lattice points and the centre
\* were returned.
C7_Witness == IsCallOnSquare /\ Len(ret) >= 3

\* C8 (as claimed): no point occurs twice in the result, and every returned
\* point is within raster bounds and passes the point-in-polygon test.
C8_SetInRasterInPolygon ==
    InteriorDone
        => /\ \A i, j \in 1..Len(ret) : i # j => ret[i] # ret[j]
           /\ \A k \in 1..Len(ret) :
                 /\ InRaster(ret[k], call.img_shape)
                 /\ point_in_polygon(ret[k], call.contour_points)

CallCenter ==
    box_center(SeqMin(call.contour_points, 1), SeqMin(call.contour_points, 2),
               SeqMax(call.contour_points, 1), SeqMax(call.contour_points, 2))

\* C8 (amended): every returned point passes the point-in-polygon test; every
\* returned point other than the bounding-box centre appended last is within
\* raster bounds; and two entries are equal only when the later one is that
\* centre.
C8_LatticeInRasterCenterLast ==
    InteriorDone
        => /\ \A k \in 1..Len(ret) : point_in_polygon(ret[k], call.contour_points)
           /\ \A k \in 1..Len(ret) :
                 \/ InRaster(ret[k], call.img_shape)
                 \/ (k = Len(ret) /\ ret[k] = CallCenter)
           /\ \A i, j \in 1..Len(ret) :
                 (i < j /\ ret[i] = ret[j]) => (j = Len(ret) /\ ret[j] = CallCenter)

\* C8 witness: a result whose last entry, the centre, repeats a lattice point.
C8_Witness ==
    /\ InteriorDone
    /\ Len(ret) >= 3
    /\ \E i \in 1..(Len(ret) - 1) : ret[i] = ret[Len(ret)]

-----------------------------------------------------------------------------
(* The containment test checked as a pure function: Init draws a point and  *)
(* a simple polygon, the one action applies point_in_polygon.               *)

\* Coordinates of the tested points: outside, between and on the grid lines
\* that carry the polygons' vertices.
PolygonTestCoords == {-3, 0, 4, 10, 13, 20, 23}

PolygonCalls ==
    [fn : {"point_in_polygon"},
     point : PolygonTestCoords \X PolygonTestCoords,
     polygon_points : GridPolygons]

PolygonInit ==
    /\ pc = "call"
    /\ call \in PolygonCalls
    /\ ret = "none"
    /\ Constructed

CallPolygon ==
    /\ pc = "call"
    /\ call.fn = "point_in_polygon"
    /\ ret' = point_in_polygon(call.point, call.polygon_points)
    /\ pc' = "done"
    /\ UNCHANGED call
    /\ UNCHANGED gameVars

PolygonNext == CallPolygon

PolygonSpec == PolygonInit /\ [][PolygonNext]_vars

PolygonDone == pc = "done" /\ call.fn = "point_in_polygon"

\* The horizontal ray from p towards larger x passes through vertex v.
RayThroughVertex(p, v) == v[2] = p[2] /\ v[1] > p[1]

\* The horizontal ray from p towards larger x runs along a horizontal edge.
RayAlongEdge(p, poly) ==
    \E i \in 1..Len(poly) :
       /\ poly[i][2] = Succ(poly, i)[2]
       /\ RayThroughVertex(p, poly[i])
       /\ RayThroughVertex(p, Succ(poly, i))

\* C22: for a simple polygon with integer vertices and a point p off its
\* boundary, point_in_polygon returns true exactly when p is in the interior
\* of the polygon, that is when a ray from p crosses the boundary an odd
\* number of times (decided here with a vertical ray, without the function);
\* this includes the points whose horizontal ray passes through a vertex or
\* runs along a horizontal edge.
C22_EvenOddRule ==
    (PolygonDone /\ ~OnBoundary(call.point, call.polygon_points))
        => (ret <=> StrictlyInside(call.point, call.polygon_points))

\* C22 witness: a point of the interior whose horizontal ray runs along a
\* horizontal edge of the polygon, classified inside.
C22_Witness ==
    /\ PolygonDone
    /\ ~OnBoundary(call.point, call.polygon_points)
    /\ RayAlongEdge(call.point, call.polygon_points)
    /\ StrictlyInside(call.point, call.polygon_points)
    /\ ret = TRUE

-----------------------------------------------------------------------------
(* The mesh builder checked as a pure function: Init draws boundary points, *)
(* interior points and a raster shape, the one action applies               *)
(* create_triangulation.                                                    *)

MeshSide == 6

MaxInterior == 2

\* Boundaries: the quadrilateral (0,0), (MeshSide,0), p, (0,MeshSide) for
\* every p, convex or with a reflex vertex at p.
MeshBoundaries ==
    {<< <<0, 0>>, <<MeshSide, 0>>, <<px, py>>, <<0, MeshSide>> >> :
        px \in 1..MeshSide, py \in 1..MeshSide}

\* Interior point candidates, two of them outside every raster of the model.
MeshInteriorPoints == {<<1, 1>>, <<2, 1>>, <<1, 3>>, <<3, 3>>, <<-1, 2>>, <<7, 3>>}

MeshRasters == {<<6, 6>>, <<4, 5>>}

\* Boundaries of fewer than three points, of three points on one line and of
\* one point repeated.
MeshDegenerateBoundaries ==
    { << >>,
      << <<1, 1>> >>,
      << <<1, 1>>, <<3, 3>> >>,
      << <<0, 0>>, <<1, 1>>, <<3, 3>> >>,
      << <<0, 0>>, <<3, 0>>, <<6, 0>> >>,
      << <<1, 1>>, <<1, 1>>, <<1, 1>> >> }

MeshCalls ==
    [fn : {"create_triangulation"},
     contour_points : MeshBoundaries \cup MeshDegenerateBoundaries,
     interior_points : UNION {[1..m -> MeshInteriorPoints] : m \in 0..MaxInterior},
     img_shape : MeshRasters]

MeshInit ==
    /\ pc = "call"
    /\ call \in MeshCalls
    /\ ret = "none"
    /\ Constructed

CallMesh ==
    /\ pc = "call"
    /\ call.fn = "create_triangulation"
    /\ ret' = IF create_triangulation_raises(call.contour_points,
                                             call.interior_points,
                                             call.img_shape)
               THEN "raised"
               ELSE create_triangulation(call.contour_points,
                                         call.interior_points, call.img_shape)
    /\ pc' = "done"
    /\ UNCHANGED call
    /\ UNCHANGED gameVars

MeshNext == CallMesh

MeshSpec == MeshInit /\ [][MeshNext]_vars

MeshDone == pc = "done" /\ call.fn = "create_triangulation"

\* C9: every triangle returned by create_triangulation has all three
\* vertices inside the raster, 0 <= x <= width and 0 <= y <= height, whatever
\* the boundary and interior points.
C9_VerticesInRaster ==
    MeshDone
        => \A k \in 1..Len(ret) : \A v \in 1..3 :
              /\ 0 <= ret[k][v][1] /\ ret[k][v][1] <= call.img_shape[2]
              /\ 0 <= ret[k][v][2] /\ ret[k][v][2] <= call.img_shape[1]

PointsOf(s) == {s[i] : i \in 1..Len(s)}

\* C9 witness: triangles were returned although an input point lies outside
\* the raster.
C9_Witness ==
    /\ MeshDone
    /\ Len(ret) >= 1
    /\ \E q \in PointsOf(call.contour_points) \cup PointsOf(call.interior_points) :
          q[1] < 0 \/ q[1] > call.img_shape[2] \/ q[2] > call.img_shape[1]

Scale3(poly) == [i \in 1..Len(poly) |-> <<3 * poly[i][1], 3 * poly[i][2]>>]

\* C10 (as claimed): for every returned triangle, the mean of its three
\* vertices passes the point-in-polygon test against the boundary points.
\* The mean is tested exactly, with point and polygon scaled by 3.
C10_MeanInPolygon ==
    MeshDone
        => \A k \in 1..Len(ret) :
              point_in_polygon(<< ret[k][1][1] + ret[k][2][1] + ret[k][3][1],
                                  ret[k][1][2] + ret[k][2][2] + ret[k][3][2] >>,
                               Scale3(call.contour_points))

\* C10 (amended): for every returned triangle, the mean of its three vertices
\* rounded down to integer coordinates passes the point-in-polygon test
\* against the boundary points.
C10_FlooredMeanInPolygon ==
    MeshDone
        => \A k \in 1..Len(ret) :
              \E cx, cy \in 0..MeshSide :
                 /\ 3 * cx <= ret[k][1][1] + ret[k][2][1] + ret[k][3][1]
                 /\ ret[k][1][1] + ret[k][2][1] + ret[k][3][1] < 3 * cx + 3
                 /\ 3 * cy <= ret[k][1][2] + ret[k][2][2] + ret[k][3][2]
                 /\ ret[k][1][2] + ret[k][2][2] + ret[k][3][2] < 3 * cy + 3
                 /\ point_in_polygon(<<cx, cy>>, call.contour_points)

\* C10 witness: a triangle was returned while another Delaunay triangle of
\* the same points was filtered out.
C10_Witness ==
    /\ MeshDone
    /\ Len(ret) >= 1
    /\ Len(ret) < Cardinality(DelaunayTriangles(call.contour_points
                                                  \o call.interior_points))
    /\ \A q \in PointsOf(call.contour_points) \cup PointsOf(call.interior_points) :
          rect_contains(<<0, 0, call.img_shape[2], call.img_shape[1]>>, q)

\* create_triangulation is called with too few points or with points Delaunay
\* fails on.
MeshFails ==
    \/ Len(call.contour_points) < 3
    \/ Len(call.contour_points \o call.interior_points) < 3
    \/ delaunay_raises(DelaunayTriangles(call.contour_points
                                           \o call.interior_points))

\* C11: create_triangulation returns the empty triangle list and raises
\* nothing to its caller when the boundary has fewer than 3 points, when
\* boundary and interior points together are fewer than 3, or when the
\* Delaunay call fails (all points on one line, or fewer than three distinct
\* points).
C11_FailureGivesEmptyList ==
    (MeshDone /\ MeshFails)
        => /\ ~create_triangulation_raises(call.contour_points,
                                           call.interior_points, call.img_shape)
           /\ ret = << >>

\* C11 witness: three or more input points on which the Delaunay call raised,
\* and the empty list came back.
C11_Witness ==
    /\ MeshDone
    /\ Len(call.contour_points) >= 3
    /\ Len(call.interior_points) >= 1
    /\ try_raises(call.contour_points \o call.interior_points) = "QhullError"
    /\ ret = << >>

\* The circumcentre of the triangle t is <<CircumX(t), CircumY(t)>> / CircumD(t).
CircumD(t) ==
    2 * (t[1][1] * (t[2][2] - t[3][2]) + t[2][1] * (t[3][2] - t[1][2])
         + t[3][1] * (t[1][2] - t[2][2]))

SqNorm(p) == p[1] * p[1] + p[2] * p[2]

CircumX(t) ==
    SqNorm(t[1]) * (t[2][2] - t[3][2]) + SqNorm(t[2]) * (t[3][2] - t[1][2])
        + SqNorm(t[3]) * (t[1][2] - t[2][2])

CircumY(t) ==
    SqNorm(t[1]) * (t[3][1] - t[2][1]) + SqNorm(t[2]) * (t[1][1] - t[3][1])
        + SqNorm(t[3]) * (t[2][1] - t[1][1])

\* The squared distance of p from the circumcentre of t, times CircumD(t)^2.
SqDistToCentre(p, t) ==
    (p[1] * CircumD(t) - CircumX(t)) * (p[1] * CircumD(t) - CircumX(t))
        + (p[2] * CircumD(t) - CircumY(t)) * (p[2] * CircumD(t) - CircumY(t))

\* p is closer to the circumcentre of t than the vertices of t are.
StrictlyInCircumcircle(p, t) == SqDistToCentre(p, t) < SqDistToCentre(t[1], t)

-----------------------------------------------------------------------------
(* The game: ColoringGame.run with its mouse callbacks and key loop.  pc is  *)
(* "select" while run waits in the image selection window, "main" in the    *)
(* main loop, "exit" after it and "raised" when run ended in an exception.  *)

\* Two contours in the form get_contours_from_image returns (vertex lists, the
\* last vertex not joined to the first); their sides have integer length.
\* They are a few pixels wide to keep the meshes small: the area threshold of
\* get_contours_from_image is not part of the model.
contour_a == << <<40, 40>>, <<44, 40>>, <<44, 44>>, <<40, 44>> >>

contour_b == << <<46, 40>>, <<49, 40>>, <<49, 43>>, <<46, 43>> >>

\* The image files of the working directory, each given by the contours
\* get_contours_from_image finds in it: one with two contours, one with none.
image_files == << <<contour_a, contour_b>>, << >> >>

\* One more file of the working directory: find_image_files lists it (its name
\* ends in .jpg), cv2.imread returns None for it.  Its slot in the selection
\* window holds no thumbnail and takes clicks like the others (lines 214-219).
unreadable_file == Len(image_files) + 1

\* The point counts the keys and the slider positions of the model reach.
ContourPointCounts ==
    {k \in min_contour_points..max_contour_points : k % 5 = 0}

InteriorDensities == min_interior_density..max_interior_density

\* process_image evaluated once for every image and parameter pair.
mesh_of ==
    [f \in 1..Len(image_files) |->
        [k \in ContourPointCounts |->
            [d \in InteriorDensities |->
                process_image(image_files[f], k, d, image_shape)]]]

\* Pointer positions in the density window: left of, on and right of the
\* slider track; on the contour slider, on the interior slider, below both.
DensityXs == {5, 160, 310}

DensityYs == {45, 105, 150}

\* The mouse events of the main window that the model delivers.
MouseEvents == {"EVENT_MOUSEMOVE", "EVENT_LBUTTONDOWN", "EVENT_RBUTTONDOWN"}

\* Pointer positions of clicks in the main window.
ClickPoints == {<<41, 41>>, <<43, 41>>, <<48, 41>>, <<300, 300>>}

\* Pointer positions of clicks in the colour window: the first two swatches
\* and a position past the last swatch.
ColorClicks == {<<20, 30>>, <<60, 30>>, <<400, 200>>}

Init ==
    /\ pc = "select"
    /\ call = "none"
    /\ ret = "none"
    /\ Constructed

\* select_image on a left click on the slot of file f (lines 208-226),
\* followed by run up to the main loop (lines 606-618).  load_image returns
\* False for a file imread cannot decode (line 263) and select_image sets
\* image_selected all the same (line 225); run then raises in
\* display_main_window, where cv2.imshow is given display_image = None
\* (line 247, called at line 613), and pc is "raised".
select_image(f) ==
    /\ pc = "select"
    /\ image_selected' = TRUE
    /\ dragging_contour' = FALSE
    /\ dragging_interior' = FALSE
    /\ IF f = unreadable_file
       THEN /\ original_image' = 0
            /\ pc' = "raised"
            /\ UNCHANGED <<triangles, triangle_colors, density_window_visible>>
       ELSE /\ original_image' = f
            /\ triangles' = mesh_of[f][n_contour_points][interior_density]
            /\ triangle_colors' = no_colors
            /\ density_window_visible' = TRUE
            /\ pc' = "main"
    /\ UNCHANGED <<call, ret, running, n_contour_points, interior_density,
                   current_color_index, lbutton_down>>

\* The image selection window is closed without a choice: run returns.
close_selection ==
    /\ pc = "select"
    /\ pc' = "exit"
    /\ UNCHANGED <<call, ret>>
    /\ UNCHANGED gameVars

\* The loop without its break: every triangle that contains the point is
\* painted.
handle_click_no_break(x, y) ==
    /\ pc = "main"
    /\ LET hits == {i \in 1..Len(triangles) :
                       point_in_triangle(<<x, y>>, triangles[i])}
       IN  triangle_colors' =
               [j \in (DOMAIN triangle_colors) \cup hits |->
                   IF j \in hits THEN colors[current_color_index + 1]
                   ELSE triangle_colors[j]]
    /\ UNCHANGED <<pc, call, ret, original_image, image_selected, running,
                   n_contour_points, interior_density, triangles,
                   current_color_index, dragging_contour, dragging_interior,
                   density_window_visible, lbutton_down>>

\* The handler taking the colour off a triangle that has one.
handle_click_toggles(x, y) ==
    /\ pc = "main"
    /\ LET hits == {i \in 1..Len(triangles) :
                       point_in_triangle(<<x, y>>, triangles[i])}
       IN  IF hits = {}
           THEN UNCHANGED triangle_colors
           ELSE LET i == CHOOSE h \in hits : \A g \in hits : h <= g
                IN  triangle_colors' =
                        IF i \in DOMAIN triangle_colors
                        THEN [j \in (DOMAIN triangle_colors) \ {i} |->
                                 triangle_colors[j]]
                        ELSE [j \in (DOMAIN triangle_colors) \cup {i} |->
                                 IF j = i THEN colors[current_color_index + 1]
                                 ELSE triangle_colors[j]]
    /\ UNCHANGED <<pc, call, ret, original_image, image_selected, running,
                   n_contour_points, interior_density, triangles,
                   current_color_index, dragging_contour, dragging_interior,
                   density_window_visible, lbutton_down>>

\* The handler painting the first triangle of the list when no triangle
\* contains the point.
handle_click_paints_on_miss(x, y) ==
    /\ pc = "main"
    /\ LET hits == {i \in 1..Len(triangles) :
                       point_in_triangle(<<x, y>>, triangles[i])}
           i == IF hits = {} THEN 1
                ELSE CHOOSE h \in hits : \A g \in hits : h <= g
       IN  triangle_colors' =
               [j \in (DOMAIN triangle_colors) \cup {i} |->
                   IF j = i THEN colors[current_color_index + 1]
                   ELSE triangle_colors[j]]
    /\ UNCHANGED <<pc, call, ret, original_image, image_selected, running,
                   n_contour_points, interior_density, triangles,
                   current_color_index, dragging_contour, dragging_interior,
                   density_window_visible, lbutton_down>>
\* The callback dispatched also while process_image runs.
handle_click_during_rebuild(x, y) ==
    /\ pc \in {"main", "process_image"}
    /\ UNCHANGED <<pc, call, ret, original_image, image_selected, running,
                   n_contour_points, interior_density, triangles,
                   current_color_index, dragging_contour, dragging_interior,
                   density_window_visible, lbutton_down>>
    /\ LET hits == {i \in 1..Len(triangles) :
                       point_in_triangle(<<x, y>>, triangles[i])}
       IN  IF hits = {}
           THEN UNCHANGED triangle_colors
           ELSE LET i == CHOOSE h \in hits : \A g \in hits : h <= g
                IN  triangle_colors' =
                        [j \in (DOMAIN triangle_colors) \cup {i} |->
                            IF j = i THEN colors[current_color_index + 1]
                            ELSE triangle_colors[j]]
\* handle_click for EVENT_LBUTTONDOWN at (x, y): the first triangle in index
\* order that contains the point takes the current colour.
handle_click(x, y) ==
    /\ pc = "main"
    /\ UNCHANGED <<pc, call, ret, original_image, image_selected, running,
                   n_contour_points, interior_density, triangles,
                   current_color_index, dragging_contour, dragging_interior,
                   density_window_visible, lbutton_down>>
    /\ LET hits == {i \in 1..Len(triangles) :
                       point_in_triangle(<<x, y>>, triangles[i])}
       IN  IF hits = {}
           THEN UNCHANGED triangle_colors
           ELSE LET i == CHOOSE h \in hits : \A g \in hits : h <= g
                IN  triangle_colors' =
                        [j \in (DOMAIN triangle_colors) \cup {i} |->
                            IF j = i THEN colors[current_color_index + 1]
                            ELSE triangle_colors[j]]

\* The callback painting on every event of the main window.
handle_click_on_any_event(event, x, y) == handle_click(x, y)

\* handle_click as the mouse callback of the main window (line 615): only
\* EVENT_LBUTTONDOWN passes the test of line 579.
handle_click_event(event, x, y) ==
    IF event = "EVENT_LBUTTONDOWN"
    THEN handle_click(x, y)
    ELSE pc = "main" /\ UNCHANGED vars

\* select_color for EVENT_LBUTTONDOWN at (x, y) (lines 371-387).
select_color(x, y) ==
    /\ pc = "main"
    /\ LET col == x \div color_width
           row == y \div color_height
           color_index == row * colors_per_row + col
       IN  IF 0 <= color_index /\ color_index < Len(colors)
           THEN current_color_index' = color_index
           ELSE UNCHANGED current_color_index
    /\ UNCHANGED <<pc, call, ret, original_image, image_selected, running,
                   n_contour_points, interior_density, triangles,
                   triangle_colors, dragging_contour, dragging_interior,
                   density_window_visible, lbutton_down>>

\* handle_density_control for EVENT_LBUTTONDOWN at (x, y) (lines 466-475).
density_lbuttondown(x, y) ==
    /\ pc = "main"
    /\ density_window_visible
    /\ ~lbutton_down
    /\ lbutton_down' = TRUE
    /\ IF /\ slider_y_contour - 5 <= y /\ y <= slider_y_contour + 17
          /\ slider_x - 10 <= x /\ x <= slider_x + slider_width + 10
       THEN dragging_contour' = TRUE /\ UNCHANGED dragging_interior
       ELSE IF /\ slider_y_interior - 5 <= y /\ y <= slider_y_interior + 17
               /\ slider_x - 10 <= x /\ x <= slider_x + slider_width + 10
            THEN dragging_interior' = TRUE /\ UNCHANGED dragging_contour
            ELSE UNCHANGED <<dragging_contour, dragging_interior>>
    /\ UNCHANGED <<pc, call, ret, original_image, image_selected, running,
                   n_contour_points, interior_density, triangles,
                   triangle_colors, current_color_index,
                   density_window_visible>>

\* The release handler rebuilding the mesh with the colour assignment kept.
density_lbuttonup_keeps_colors ==
    /\ pc = "main"
    /\ lbutton_down
    /\ lbutton_down' = FALSE
    /\ IF density_window_visible /\ (dragging_contour \/ dragging_interior)
       THEN /\ dragging_contour' = FALSE
            /\ dragging_interior' = FALSE
            /\ triangles' =
                   mesh_of[original_image][n_contour_points][interior_density]
       ELSE UNCHANGED <<dragging_contour, dragging_interior, triangles>>
    /\ UNCHANGED <<pc, call, ret, original_image, image_selected, running,
                   n_contour_points, interior_density, triangle_colors,
                   current_color_index, density_window_visible>>

\* The release handler rebuilding the mesh with the dragging flags kept.
density_lbuttonup_keeps_dragging ==
    /\ pc = "main"
    /\ lbutton_down
    /\ lbutton_down' = FALSE
    /\ IF density_window_visible /\ (dragging_contour \/ dragging_interior)
       THEN /\ triangles' =
                   mesh_of[original_image][n_contour_points][interior_density]
            /\ triangle_colors' = no_colors
       ELSE UNCHANGED <<triangles, triangle_colors>>
    /\ UNCHANGED <<pc, call, ret, original_image, image_selected, running,
                   n_contour_points, interior_density, current_color_index,
                   dragging_contour, dragging_interior,
                   density_window_visible>>
\* The left button is released.  With the density window shown this is
\* handle_density_control for EVENT_LBUTTONUP (lines 477-485); with the
\* window hidden no callback runs.
density_lbuttonup ==
    /\ pc = "main"
    /\ lbutton_down
    /\ lbutton_down' = FALSE
    /\ IF density_window_visible /\ (dragging_contour \/ dragging_interior)
       THEN /\ dragging_contour' = FALSE
            /\ dragging_interior' = FALSE
            /\ triangles' =
                   mesh_of[original_image][n_contour_points][interior_density]
            /\ triangle_colors' = no_colors
       ELSE UNCHANGED <<dragging_contour, dragging_interior, triangles,
                        triangle_colors>>
    /\ UNCHANGED <<pc, call, ret, original_image, image_selected, running,
                   n_contour_points, interior_density, current_color_index,
                   density_window_visible>>

\* The value a slider takes for the pointer at x (lines 491-495 and 503-507):
\* int(lo + ratio * (hi - lo)) with ratio = (slider_x_pos - slider_x) / slider_width.
slider_value(x, lo, hi) ==
    LET slider_x_pos == Max(slider_x, Min(x, slider_x + slider_width))
    IN  int(lo * slider_width + (slider_x_pos - slider_x) * (hi - lo),
            slider_width)

\* The move handler rebuilding the mesh on every value it sets.
density_mousemove_rebuilds(x) ==
    /\ pc = "main"
    /\ density_window_visible
    /\ IF dragging_contour
       THEN /\ n_contour_points' =
                   slider_value(x, min_contour_points, max_contour_points)
            /\ UNCHANGED interior_density
       ELSE IF dragging_interior
            THEN /\ interior_density' =
                        slider_value(x, min_interior_density,
                                     max_interior_density)
                 /\ UNCHANGED n_contour_points
            ELSE UNCHANGED <<n_contour_points, interior_density>>
    /\ IF dragging_contour \/ dragging_interior
       THEN /\ dragging_contour' = FALSE
            /\ dragging_interior' = FALSE
            /\ triangles' =
                   mesh_of[original_image][n_contour_points'][interior_density']
            /\ triangle_colors' = no_colors
       ELSE UNCHANGED <<dragging_contour, dragging_interior, triangles,
                        triangle_colors>>
    /\ UNCHANGED <<pc, call, ret, original_image, image_selected, running,
                   current_color_index, density_window_visible, lbutton_down>>
\* handle_density_control for EVENT_MOUSEMOVE at x (lines 487-511).  After a
\* parameter changes the handler calls create_density_control_window, which
\* redraws the window and sets both dragging flags to False (lines 458-459).
density_mousemove(x) ==
    /\ pc = "main"
    /\ density_window_visible
    /\ IF dragging_contour
       THEN /\ n_contour_points' =
                   slider_value(x, min_contour_points, max_contour_points)
            /\ dragging_contour' = FALSE
            /\ dragging_interior' = FALSE
            /\ UNCHANGED interior_density
       ELSE IF dragging_interior
            THEN /\ interior_density' =
                        slider_value(x, min_interior_density,
                                     max_interior_density)
                 /\ dragging_contour' = FALSE
                 /\ dragging_interior' = FALSE
                 /\ UNCHANGED n_contour_points
            ELSE UNCHANGED <<n_contour_points, interior_density,
                             dragging_contour, dragging_interior>>
    /\ UNCHANGED <<pc, call, ret, original_image, image_selected, running,
                   triangles, triangle_colors, current_color_index,
                   density_window_visible, lbutton_down>>

\* Key ESC, or the main window was closed (lines 625-630): the loop ends.
key_esc ==
    /\ pc = "main"
    /\ running' = FALSE
    /\ pc' = "exit"
    /\ UNCHANGED <<call, ret, original_image, image_selected,
                   n_contour_points, interior_density, triangles,
                   triangle_colors, current_color_index, dragging_contour,
                   dragging_interior, density_window_visible, lbutton_down>>

\* A reset that empties the triangle list as well.
key_r_clears_mesh ==
    /\ pc = "main"
    /\ triangle_colors' = no_colors
    /\ triangles' = << >>
    /\ UNCHANGED <<pc, call, ret, original_image, image_selected, running,
                   n_contour_points, interior_density,
                   current_color_index, dragging_contour, dragging_interior,
                   density_window_visible, lbutton_down>>

\* Key 'r' (lines 632-640).
key_r ==
    /\ pc = "main"
    /\ triangle_colors' = no_colors
    /\ UNCHANGED <<pc, call, ret, original_image, image_selected, running,
                   n_contour_points, interior_density, triangles,
                   current_color_index, dragging_contour, dragging_interior,
                   density_window_visible, lbutton_down>>

\* Key 'd' (lines 647-655): hide the density window, or show it again through
\* create_density_control_window.
key_d ==
    /\ pc = "main"
    /\ IF density_window_visible
       THEN /\ density_window_visible' = FALSE
            /\ UNCHANGED <<dragging_contour, dragging_interior>>
       ELSE /\ density_window_visible' = TRUE
            /\ dragging_contour' = FALSE
            /\ dragging_interior' = FALSE
    /\ UNCHANGED <<pc, call, ret, original_image, image_selected, running,
                   n_contour_points, interior_density, triangles,
                   triangle_colors, current_color_index, lbutton_down>>

\* The tail with the colour assignment kept across the rebuild.
rebuild_after_key_keeps_colors ==
    /\ triangles' = mesh_of[original_image][n_contour_points'][interior_density']
    /\ UNCHANGED triangle_colors
    /\ IF density_window_visible
       THEN dragging_contour' = FALSE /\ dragging_interior' = FALSE
       ELSE UNCHANGED <<dragging_contour, dragging_interior>>
    /\ UNCHANGED <<pc, call, ret, original_image, image_selected, running,
                   current_color_index, density_window_visible, lbutton_down>>

\* The tail shared by keys '+' and '-': process_image, then
\* create_density_control_window when the density window is shown.
rebuild_after_key ==
    /\ triangles' = mesh_of[original_image][n_contour_points'][interior_density']
    /\ triangle_colors' = no_colors
    /\ IF density_window_visible
       THEN dragging_contour' = FALSE /\ dragging_interior' = FALSE
       ELSE UNCHANGED <<dragging_contour, dragging_interior>>
    /\ UNCHANGED <<pc, call, ret, original_image, image_selected, running,
                   current_color_index, density_window_visible, lbutton_down>>

\* Key '+' or '=' (lines 657-671).
key_plus ==
    /\ pc = "main"
    /\ n_contour_points' = Min(n_contour_points + 5, max_contour_points)
    /\ interior_density' = Min(interior_density + 1, max_interior_density)
    /\ rebuild_after_key

\* Key '-' or '_' (lines 673-687).
key_minus ==
    /\ pc = "main"
    /\ n_contour_points' = Max(n_contour_points - 5, min_contour_points)
    /\ interior_density' = Max(interior_density - 1, min_interior_density)
    /\ rebuild_after_key

Next ==
    \/ \E f \in 1..unreadable_file : select_image(f)
    \/ close_selection
    \/ \E e \in MouseEvents, p \in ClickPoints :
          handle_click_event(e, p[1], p[2])
    \/ \E p \in ColorClicks : select_color(p[1], p[2])
    \/ \E x \in DensityXs, y \in DensityYs : density_lbuttondown(x, y)
    \/ density_lbuttonup
    \/ \E x \in DensityXs : density_mousemove(x)
    \/ key_esc
    \/ key_r
    \/ key_d
    \/ key_plus
    \/ key_minus

Spec == Init /\ [][Next]_vars

\* C1: in every state of the main loop where no drag is in progress (the
\* left button is up and neither dragging flag is set), the mesh is the one
\* process_image builds from the current parameter values; a drag that
\* changed a parameter and ended with a release has rebuilt the mesh.
C1_MeshBuiltFromCurrentParameters ==
    (pc = "main" /\ ~lbutton_down /\ ~dragging_contour /\ ~dragging_interior)
        => triangles =
               mesh_of[original_image][n_contour_points][interior_density]

\* A step that changes no variable: [A]_vars admits it whatever A is, so the
\* step formulas below name it first and are evaluated on the other steps only.
Stuttering == UNCHANGED vars

\* Triangle i is the first of the mesh, in index order, that contains p.
IsFirstHit(i, p) ==
    /\ point_in_triangle(p, triangles[i])
    /\ \A j \in 1..(i - 1) : ~point_in_triangle(p, triangles[j])

\* The colour entry of triangle i is the same before and after the step.
EntryUnchanged(i) ==
    /\ (i \in DOMAIN triangle_colors') <=> (i \in DOMAIN triangle_colors)
    /\ i \in DOMAIN triangle_colors => triangle_colors'[i] = triangle_colors[i]

\* C15: a left-button click at p paints the triangle with the lowest index
\* among the triangles of the mesh that contain p, and no other triangle,
\* also when several triangles contain p (a shared edge or vertex, or
\* overlapping triangles).
C15_LowestIndexPainted ==
    [][Stuttering \/ \A p \in ClickPoints :
          handle_click(p[1], p[2])
              => \A i \in 1..Len(triangles) :
                    IF IsFirstHit(i, p)
                    THEN /\ i \in DOMAIN triangle_colors'
                         /\ triangle_colors'[i] = colors[current_color_index + 1]
                    ELSE EntryUnchanged(i)]_vars

\* C15 witness: a triangle is painted that is the first to contain a click
\* point which a triangle of higher index contains as well.
C15_Witness ==
    /\ pc = "main"
    /\ \E p \in ClickPoints : \E i \in DOMAIN triangle_colors :
          /\ IsFirstHit(i, p)
          /\ \E j \in (i + 1)..Len(triangles) :
                /\ point_in_triangle(p, triangles[j])
                /\ j \notin DOMAIN triangle_colors

\* C17: a click that paints triangle i sets its entry to the currently
\* selected colour whatever entry it had before, and leaves the entry of
\* every other triangle, the mesh, the parameters and the selected colour
\* unchanged.
C17_PaintOverwritesOneEntry ==
    [][Stuttering \/ \A p \in ClickPoints :
          handle_click(p[1], p[2])
              => \A i \in 1..Len(triangles) :
                    IsFirstHit(i, p)
                        => /\ triangle_colors' =
                                  [j \in (DOMAIN triangle_colors) \cup {i} |->
                                      IF j = i
                                      THEN colors[current_color_index + 1]
                                      ELSE triangle_colors[j]]
                           /\ triangles' = triangles
                           /\ n_contour_points' = n_contour_points
                           /\ interior_density' = interior_density
                           /\ current_color_index' = current_color_index]_vars

\* C17 witness: two triangles are painted, one in the colour selected now and
\* one in another colour.
C17_Witness ==
    /\ pc = "main"
    /\ \E i, j \in DOMAIN triangle_colors :
          /\ i # j
          /\ triangle_colors[i] = colors[current_color_index + 1]
          /\ triangle_colors[j] # colors[current_color_index + 1]

\* C18: key 'r' empties the colour assignment and leaves the mesh and the
\* parameters unchanged: a triangle that was painted has no entry after the
\* reset, and a point whose first containing triangle was i still has i as
\* its first containing triangle.
C18_ResetKeepsMesh ==
    [][key_r
          => /\ triangle_colors' = no_colors
             /\ \A i \in DOMAIN triangle_colors : i \notin DOMAIN triangle_colors'
             /\ triangles' = triangles
             /\ n_contour_points' = n_contour_points
             /\ interior_density' = interior_density
             /\ \A p \in ClickPoints : \A i \in 1..Len(triangles) :
                   IsFirstHit(i, p) => IsFirstHit(i, p)']_vars

\* C18 witness: the state a reset acts on, with a painted triangle that is
\* the first to contain a click point.
C18_Witness ==
    /\ pc = "main"
    /\ \E p \in ClickPoints : \E i \in DOMAIN triangle_colors : IsFirstHit(i, p)

\* A step that runs process_image: an image is selected, key '+' or '-' is
\* handled, or the button is released over the shown density window while a
\* dragging flag is set.
RebuildStep ==
    \/ \E f \in 1..Len(image_files) : select_image(f)
    \/ key_plus
    \/ key_minus
    \/ /\ density_lbuttonup
       /\ density_window_visible
       /\ dragging_contour \/ dragging_interior

\* C19: every rebuild leaves the colour assignment empty, whatever it held
\* before and also when the parameters did not change, and leaves the mesh
\* built from the parameters and the image of the state it ends in.
C19_RebuildClearsColors ==
    [][RebuildStep
          => /\ triangle_colors' = no_colors
             /\ triangles' =
                    mesh_of[original_image'][n_contour_points'][interior_density']]_vars

\* C19 witness: the state a rebuild that changes no parameter acts on: both
\* parameters at their upper bound, where key '+' leaves them, and a painted
\* triangle.
C19_Witness ==
    /\ pc = "main"
    /\ n_contour_points = max_contour_points
    /\ interior_density = max_interior_density
    /\ triangle_colors # no_colors

\* The loaded image is one in which get_contours_from_image finds no contour.
NoContours == original_image # 0 /\ image_files[original_image] = << >>

\* C21: when the contour extractor returns no contour for the loaded image,
\* the mesh process_image builds is empty, no click point lies in a triangle,
\* and the colour assignment is empty in every state of the main loop,
\* whatever clicks, colour choices, keys and slider events came before.
C21_NoContoursNothingPainted ==
    (pc = "main" /\ NoContours)
        => /\ triangles = << >>
           /\ \A p \in ClickPoints : \A i \in 1..Len(triangles) :
                 ~point_in_triangle(p, triangles[i])
           /\ triangle_colors = no_colors

\* C21 witness: the main loop on an image without contours, after events:
\* another colour was chosen and the parameters were moved to their lower
\* bounds (the clicks themselves leave no trace in the state).
C21_Witness ==
    /\ pc = "main"
    /\ NoContours
    /\ current_color_index # 0
    /\ n_contour_points = min_contour_points
    /\ interior_density = min_interior_density

C26_KeysAreMeshIndices ==
    \A i \in DOMAIN triangle_colors : 1 <= i /\ i <= Len(triangles)

\* C26 witness: a painted triangle whose index is valid in the current mesh
\* and beyond the end of the mesh of the current parameters: a slider was
\* moved since the mesh was built, and no rebuild followed.
C26_Witness ==
    /\ pc = "main"
    /\ \E i \in DOMAIN triangle_colors :
          i > Len(mesh_of[original_image][n_contour_points][interior_density])

\* The triangles whose colour entry differs between the two states of a step.
ChangedEntries == {i \in 1..Len(triangles) : ~EntryUnchanged(i)}

\* C27: one mouse event of the main window changes at most one colour entry
\* and nothing else: a left-button press at a point that some triangle
\* contains sets the entry of exactly one triangle, one that contains the
\* point, to the selected colour; a press at a point no triangle contains, and
\* every other event, leaves the colour assignment unchanged; the mesh and
\* the parameters are unchanged in all cases.
C27_OneEventOneEntry ==
    [][Stuttering \/ \A e \in MouseEvents : \A p \in ClickPoints :
          handle_click_event(e, p[1], p[2])
              => /\ triangles' = triangles
                 /\ n_contour_points' = n_contour_points
                 /\ interior_density' = interior_density
                 /\ Cardinality(ChangedEntries) <= 1
                 /\ IF /\ e = "EVENT_LBUTTONDOWN"
                       /\ \E i \in 1..Len(triangles) :
                             point_in_triangle(p, triangles[i])
                    THEN \E i \in 1..Len(triangles) :
                            /\ point_in_triangle(p, triangles[i])
                            /\ DOMAIN triangle_colors' =
                                   (DOMAIN triangle_colors) \cup {i}
                            /\ triangle_colors'[i] =
                                   colors[current_color_index + 1]
                            /\ \A j \in DOMAIN triangle_colors :
                                  j # i => triangle_colors'[j] = triangle_colors[j]
                    ELSE triangle_colors' = triangle_colors]_vars

\* C27 witness: exactly one triangle is painted, a click point lies in a
\* triangle that is not painted and another click point lies in no triangle.
C27_Witness ==
    /\ pc = "main"
    /\ Cardinality(DOMAIN triangle_colors) = 1
    /\ \E p \in ClickPoints : \E i \in 1..Len(triangles) :
          IsFirstHit(i, p) /\ i \notin DOMAIN triangle_colors
    /\ \E p \in ClickPoints : \A i \in 1..Len(triangles) :
          ~point_in_triangle(p, triangles[i])

C29_SelectedImageIsLoaded == image_selected => original_image # 0

-----------------------------------------------------------------------------
(* The main loop of run step by step (lines 620-687).  pc is "main" while   *)
(* run waits in cv2.waitKey (line 622), where OpenCV dispatches the mouse   *)
(* callbacks; "key" when waitKey has returned and the visibility of the     *)
(* main window was read (lines 625-626); "process_image" inside the loop of *)
(* process_image (lines 290-312); "loop_test" at the test of the while loop *)
(* (line 620); "exit" after the loop.  The program has one thread: a        *)
(* callback runs to its end inside waitKey, and process_image runs to its   *)
(* end inside the callback or the key branch that called it.  call holds    *)
(* the key read and the position in process_image.                          *)

\* The triangles of contour c of image f for every parameter pair.
contour_mesh_of ==
    [f \in 1..Len(image_files) |->
        [k \in ContourPointCounts |->
            [d \in InteriorDensities |->
                [c \in 1..Len(image_files[f]) |->
                    contour_triangles(image_files[f][c], k, d, image_shape)]]]]

\* The keys cv2.waitKey returns in the model; "none" is the timeout.
LoopKeys == {"none", "esc", "r", "s", "d", "+", "-"}

\* Pointer positions of the model in the main window and the density window.
LoopClickPoints == {<<43, 41>>, <<300, 300>>}

LoopPressPoints == {<<160, 45>>, <<160, 105>>}

LoopMoveXs == {5}

\* call while no key is being handled and process_image does not run.
no_call == [key |-> "none", i |-> 0, caller |-> "none"]

LoopInit ==
    /\ pc = "select"
    /\ call = no_call
    /\ ret = "none"
    /\ Constructed

\* Lines 622-626: waitKey returns key; when the main window is no longer
\* visible, running is set to False.
wait_key(key, closed) ==
    /\ pc = "main"
    /\ pc' = "key"
    /\ call' = [key |-> key, i |-> 0, caller |-> "key"]
    /\ running' = IF closed THEN FALSE ELSE running
    /\ UNCHANGED <<ret, original_image, image_selected, n_contour_points,
                   interior_density, triangles, triangle_colors,
                   current_color_index, dragging_contour, dragging_interior,
                   density_window_visible, lbutton_down>>

\* Lines 629-630.
loop_key_esc ==
    /\ pc = "key"
    /\ call.key = "esc"
    /\ running' = FALSE
    /\ pc' = "loop_test"
    /\ call' = no_call
    /\ UNCHANGED <<ret, original_image, image_selected, n_contour_points,
                   interior_density, triangles, triangle_colors,
                   current_color_index, dragging_contour, dragging_interior,
                   density_window_visible, lbutton_down>>

\* Lines 632-640.
loop_key_r ==
    /\ pc = "key"
    /\ call.key = "r"
    /\ triangle_colors' = no_colors
    /\ pc' = "loop_test"
    /\ call' = no_call
    /\ UNCHANGED <<ret, original_image, image_selected, running,
                   n_contour_points, interior_density, triangles,
                   current_color_index, dragging_contour, dragging_interior,
                   density_window_visible, lbutton_down>>

\* Lines 642-645 (key 's' writes the displayed image to a file) and a key
\* no branch tests.
loop_key_other ==
    /\ pc = "key"
    /\ call.key \in {"none", "s"}
    /\ pc' = "loop_test"
    /\ call' = no_call
    /\ UNCHANGED <<ret>>
    /\ UNCHANGED gameVars

\* Lines 647-655.
loop_key_d ==
    /\ pc = "key"
    /\ call.key = "d"
    /\ IF density_window_visible
       THEN /\ density_window_visible' = FALSE
            /\ UNCHANGED <<dragging_contour, dragging_interior>>
       ELSE /\ density_window_visible' = TRUE
            /\ dragging_contour' = FALSE
            /\ dragging_interior' = FALSE
    /\ pc' = "loop_test"
    /\ call' = no_call
    /\ UNCHANGED <<ret, original_image, image_selected, running,
                   n_contour_points, interior_density, triangles,
                   triangle_colors, current_color_index, lbutton_down>>

\* Lines 657-662 and 673-678, then process_image up to its loop
\* (lines 279-287): the parameters are stepped and the triangle list emptied.
loop_key_rebuild ==
    /\ pc = "key"
    /\ call.key \in {"+", "-"}
    /\ IF call.key = "+"
       THEN /\ n_contour_points' =
                   Min(n_contour_points + 5, max_contour_points)
            /\ interior_density' =
                   Min(interior_density + 1, max_interior_density)
       ELSE /\ n_contour_points' =
                   Max(n_contour_points - 5, min_contour_points)
            /\ interior_density' =
                   Max(interior_density - 1, min_interior_density)
    /\ triangles' = << >>
    /\ pc' = "process_image"
    /\ UNCHANGED <<call, ret, original_image, image_selected, running,
                   triangle_colors, current_color_index, dragging_contour,
                   dragging_interior, density_window_visible, lbutton_down>>

\* handle_density_control for EVENT_LBUTTONUP (lines 477-483), then
\* process_image up to its loop; with the density window hidden no callback
\* runs.
loop_lbuttonup ==
    /\ pc = "main"
    /\ lbutton_down
    /\ lbutton_down' = FALSE
    /\ IF density_window_visible /\ (dragging_contour \/ dragging_interior)
       THEN /\ dragging_contour' = FALSE
            /\ dragging_interior' = FALSE
            /\ triangles' = << >>
            /\ pc' = "process_image"
            /\ call' = [key |-> "none", i |-> 0, caller |-> "callback"]
       ELSE UNCHANGED <<dragging_contour, dragging_interior, triangles, pc,
                        call>>
    /\ UNCHANGED <<ret, original_image, image_selected, running,
                   n_contour_points, interior_density, triangle_colors,
                   current_color_index, density_window_visible>>

\* One pass of the loop of process_image (lines 290-312): the triangles of
\* the next contour are appended to the list.
process_image_contour ==
    /\ pc = "process_image"
    /\ call.i < Len(image_files[original_image])
    /\ triangles' =
           triangles \o contour_mesh_of[original_image][n_contour_points]
                                       [interior_density][call.i + 1]
    /\ call' = [call EXCEPT !.i = @ + 1]
    /\ UNCHANGED <<pc, ret, original_image, image_selected, running,
                   n_contour_points, interior_density, triangle_colors,
                   current_color_index, dragging_contour, dragging_interior,
                   density_window_visible, lbutton_down>>

\* The end of process_image (lines 315-317) and the caller's statements after
\* it: the key branch redraws the density window when it is shown
\* (lines 666-670 and 682-686), the callback returns into waitKey (line 485).
process_image_return ==
    /\ pc = "process_image"
    /\ call.i = Len(image_files[original_image])
    /\ triangle_colors' = no_colors
    /\ IF call.caller = "key" /\ density_window_visible
       THEN dragging_contour' = FALSE /\ dragging_interior' = FALSE
       ELSE UNCHANGED <<dragging_contour, dragging_interior>>
    /\ pc' = IF call.caller = "key" THEN "loop_test" ELSE "main"
    /\ call' = no_call
    /\ UNCHANGED <<ret, original_image, image_selected, running,
                   n_contour_points, interior_density, triangles,
                   current_color_index, density_window_visible, lbutton_down>>

\* The loop test skipped: the loop goes on whatever running is.
loop_test_ignores_running ==
    /\ pc = "loop_test"
    /\ pc' = "main"
    /\ UNCHANGED <<call, ret>>
    /\ UNCHANGED gameVars

\* The test of the while loop (line 620); after the loop run closes the
\* windows and returns (lines 690-691).
loop_test ==
    /\ pc = "loop_test"
    /\ pc' = IF running THEN "main" ELSE "exit"
    /\ UNCHANGED <<call, ret>>
    /\ UNCHANGED gameVars

\* The steps run takes by itself once waitKey has returned.
LoopProgramStep ==
    \/ loop_key_esc
    \/ loop_key_r
    \/ loop_key_other
    \/ loop_key_d
    \/ loop_key_rebuild
    \/ process_image_contour
    \/ process_image_return
    \/ loop_test

\* select_image builds the first mesh in one step: the callback of the main
\* window is registered after it (line 615), so no click can meet that
\* rebuild.
LoopNext ==
    \/ \E f \in 1..unreadable_file : select_image(f)
    \/ close_selection
    \/ \E e \in MouseEvents, p \in LoopClickPoints :
          handle_click_event(e, p[1], p[2])
    \/ \E p \in LoopPressPoints : density_lbuttondown(p[1], p[2])
    \/ \E x \in LoopMoveXs : density_mousemove(x)
    \/ loop_lbuttonup
    \/ \E key \in LoopKeys, closed \in BOOLEAN : wait_key(key, closed)
    \/ LoopProgramStep

LoopSpec == LoopInit /\ [][LoopNext]_vars

\* run goes on with its next statement: no step of its own is put off for
\* ever.
LoopLiveSpec == LoopSpec /\ WF_vars(LoopProgramStep)

RebuildInProgress == pc = "process_image"

\* The triangle list is a whole mesh: the one process_image builds for the
\* loaded image and some parameter pair.
MeshComplete ==
    \E k \in ContourPointCounts : \E d \in InteriorDensities :
       triangles = mesh_of[original_image][k][d]

\* C24: the mesh is replaced atomically with respect to the mouse events: a
\* click handler never runs while process_image is in progress, so the
\* triangle list it scans is a whole mesh, never the triangles of only some
\* contours, and never a new mesh beside the colours of the mesh before;
\* when process_image has ended the colour assignment is empty and the
\* triangle list is the mesh of the current parameters.
C24_MeshReplacedAtomically ==
    [][Stuttering
       \/ /\ \A p \in LoopClickPoints :
                handle_click(p[1], p[2])
                    => ~RebuildInProgress /\ MeshComplete
          /\ (RebuildInProgress /\ ~RebuildInProgress')
                => /\ triangle_colors' = no_colors
                   /\ triangles' =
                          mesh_of[original_image][n_contour_points]
                                 [interior_density]]_vars

\* C24 witness: process_image is in progress after the first of two
\* contours: the triangle list holds the triangles of that contour only, a
\* click point lies in one of them, and the colour assignment still is the
\* one of the mesh before.
C24_Witness ==
    /\ RebuildInProgress
    /\ call.i = 1
    /\ ~MeshComplete
    /\ triangle_colors # no_colors
    /\ \E p \in LoopClickPoints : \E i \in 1..Len(triangles) :
          point_in_triangle(p, triangles[i])

\* C30: once ESC was read or the main window was found closed, running is
\* false and stays false; the iteration in which it became false is the
\* last one (run is never again in waitKey with running false) and the loop
\* is left at its end; after the loop nothing changes any more, and so no
\* key rebuilds the mesh after the loop has exited.
C30_LoopTerminates ==
    /\ [][~running => ~running']_vars
    /\ [](~running => pc \in {"key", "process_image", "loop_test", "exit"})
    /\ [][pc = "exit" => UNCHANGED <<triangles, triangle_colors,
                                     n_contour_points, interior_density>>]_vars
    /\ (~running) ~> (pc = "exit")

\* C30 witness: the main window was found closed and the key read in the
\* same iteration, '+' or '-', is being handled: the rebuild it started runs
\* with running false, before the loop is left.
C30_Witness ==
    /\ RebuildInProgress
    /\ ~running
    /\ call.caller = "key"

-----------------------------------------------------------------------------
(* The hit test checked as a pure function: Init draws a point and a        *)
(* triangle of the kind a mesh holds (three points not on one line, in      *)
(* either orientation), the one action applies point_in_triangle.           *)

HitMax == 10

\* Vertex coordinates: the triangle (0,0), (10,0), (0,10) is among the
\* triangles.
HitCoords == {0, 5, 10}

HitVertices == HitCoords \X HitCoords

\* Twice the signed area of the triangle a, b, c: positive for one
\* orientation, negative for the other, 0 when the points lie on one line.
Area2(a, b, c) ==
    (b[1] - a[1]) * (c[2] - a[2]) - (b[2] - a[2]) * (c[1] - a[1])

HitTriangles ==
    {t \in HitVertices \X HitVertices \X HitVertices :
        Area2(t[1], t[2], t[3]) # 0}

HitCalls ==
    [fn : {"point_in_triangle"},
     point : (0..HitMax) \X (0..HitMax),
     triangle : HitTriangles]

HitInit ==
    /\ pc = "call"
    /\ call \in HitCalls
    /\ ret = "none"
    /\ Constructed

CallHit ==
    /\ pc = "call"
    /\ call.fn = "point_in_triangle"
    /\ ret' = point_in_triangle(call.point, call.triangle)
    /\ pc' = "done"
    /\ UNCHANGED call
    /\ UNCHANGED gameVars

HitNext == CallHit

HitSpec == HitInit /\ [][HitNext]_vars

HitDone == pc = "done" /\ call.fn = "point_in_triangle"

\* p = a + s (b - a) + u (c - a) with s >= 0, u >= 0 and s + u <= 1: p lies in
\* the closed triangle a, b, c.  s and u are compared after multiplying with
\* twice the signed area.
InClosedTriangle(p, t) ==
    LET D  == Area2(t[1], t[2], t[3])
        sD == Area2(t[1], p, t[3])
        uD == Area2(t[1], t[2], p)
    IN  IF D > 0
        THEN sD >= 0 /\ uD >= 0 /\ sD + uD <= D
        ELSE sD <= 0 /\ uD <= 0 /\ sD + uD >= D

ExampleTriangle == << <<0, 0>>, <<10, 0>>, <<0, 10>> >>

\* C16: point_in_triangle returns true exactly when the point lies in the
\* closed triangle (interior, edges and vertices), for both vertex orders;
\* for (0,0), (10,0), (0,10) the point (2,2) is inside, (9,9) is outside and
\* (5,5), on the hypotenuse, is inside.
C16_ClosedTriangle ==
    HitDone
        => /\ ret <=> InClosedTriangle(call.point, call.triangle)
           /\ (call.triangle = ExampleTriangle /\ call.point = <<2, 2>>) => ret
           /\ (call.triangle = ExampleTriangle /\ call.point = <<9, 9>>) => ~ret
           /\ (call.triangle = ExampleTriangle /\ call.point = <<5, 5>>) => ret

\* C16 witness: a point on an edge, not a vertex, of a triangle given in the
\* orientation opposite to the example's was classified inside.
C16_Witness ==
    /\ HitDone
    /\ Area2(call.triangle[1], call.triangle[2], call.triangle[3]) < 0
    /\ Area2(call.triangle[1], call.triangle[2], call.point) = 0
    /\ call.point # call.triangle[1]
    /\ call.point # call.triangle[2]
    /\ ret = TRUE

-----------------------------------------------------------------------------
(* The painting of one triangle checked as a pure function: Init draws a    *)
(* triangle and a fill colour, the one action applies fill_triangle, whose  *)
(* result here is the sequence of drawing requests it issues, in order.     *)

\* triangulator.triangle_color, the colour of the mesh lines
\* (triangulation.py, line 26).
triangle_color == <<0, 0, 0>>

\* cv2.line(img, pt1, pt2, color, 1, cv2.LINE_AA) as a drawing request.
line_request(pt1, pt2, color) ==
    [op |-> "line", pts |-> <<pt1, pt2>>, color |-> color]

\* cv2.fillPoly(img, [pts], color) as a drawing request.
fill_request(pts, color) ==
    [op |-> "fillPoly", pts |-> pts, color |-> color]

\* The three edges stroked before the interior is filled.
fill_triangle_strokes_first(triangle, color) ==
    << line_request(triangle[1], triangle[2], triangle_color),
       line_request(triangle[2], triangle[3], triangle_color),
       line_request(triangle[3], triangle[1], triangle_color),
       fill_request(triangle, color) >>

\* fill_triangle (lines 547-567): fillPoly, then the lines pt1-pt2, pt2-pt3
\* and pt3-pt1.
fill_triangle(triangle, color) ==
    << fill_request(triangle, color),
       line_request(triangle[1], triangle[2], triangle_color),
       line_request(triangle[2], triangle[3], triangle_color),
       line_request(triangle[3], triangle[1], triangle_color) >>

\* Fill colours: two palette colours and black, the colour of the outlines.
FillColors == {colors[1], colors[2], colors[31]}

FillCalls ==
    [fn : {"fill_triangle"}, triangle : HitTriangles, color : FillColors]

FillInit ==
    /\ pc = "call"
    /\ call \in FillCalls
    /\ ret = "none"
    /\ Constructed

CallFill ==
    /\ pc = "call"
    /\ call.fn = "fill_triangle"
    /\ ret' = fill_triangle(call.triangle, call.color)
    /\ pc' = "done"
    /\ UNCHANGED call
    /\ UNCHANGED gameVars

FillNext == CallFill

FillSpec == FillInit /\ [][FillNext]_vars

FillDone == pc = "done" /\ call.fn = "fill_triangle"

\* The positions of the requests of kind op among the requests issued.
RequestsOf(op) == {j \in 1..Len(ret) : ret[j].op = op}

\* C25: painting a triangle issues one fill of the triangle in the chosen
\* colour and, after it, the strokes of the edges p1-p2, p2-p3 and p3-p1 in
\* the outline colour, in this order; no edge is stroked before the fill.
C25_FillThenStrokes ==
    FillDone
        => /\ Cardinality(RequestsOf("fillPoly")) = 1
           /\ Cardinality(RequestsOf("line")) = 3
           /\ \A i \in RequestsOf("fillPoly") :
                 /\ ret[i].pts = call.triangle
                 /\ ret[i].color = call.color
                 /\ \A j \in RequestsOf("line") :
                       /\ i < j
                       /\ ret[j].color = triangle_color
                       /\ ret[j].pts =
                              << call.triangle[j - i],
                                 call.triangle[((j - i) % 3) + 1] >>

\* C25 witness: a triangle painted in a colour other than the outline colour.
C25_Witness ==
    /\ FillDone
    /\ Len(ret) = 4
    /\ ret[1].op = "fillPoly"
    /\ ret[1].color # ret[4].color

-----------------------------------------------------------------------------
(* The rebuild checked as a pure function of the contours found in the      *)
(* image: Init draws a list of contours, a point count and a density, the   *)
(* one action applies process_image.  The loop of lines 290-308 is also the *)
(* loop of ImageTriangulation.process_image (triangulation.py, lines        *)
(* 320-332), whose point count main() takes from --points unchecked, so a   *)
(* count below 3 is among the inputs.                                       *)

MaxContours == 2

\* A contour whose points, sampled at a count of 4, all lie on one line.
contour_c == << <<0, 0>>, <<8, 0>>, <<8, 3>> >>

\* A contour wide enough for a lattice of interior points.
contour_d == << <<10, 10>>, <<22, 10>>, <<22, 22>>, <<10, 22>> >>

RebuildContours == {contour_a, contour_b, contour_c, contour_d}

RebuildPointCounts == {2, 4, 10}

RebuildDensities == {2, 8}

RebuildCalls ==
    [fn : {"process_image"},
     contours : UNION {[1..m -> RebuildContours] : m \in 0..MaxContours},
     n_points : RebuildPointCounts,
     density : RebuildDensities,
     img_shape : {image_shape}]

RebuildInit ==
    /\ pc = "call"
    /\ call \in RebuildCalls
    /\ ret = "none"
    /\ Constructed

CallRebuild ==
    /\ pc = "call"
    /\ call.fn = "process_image"
    /\ ret' = [raised |-> process_image_raises(call.contours, call.n_points),
               triangles |->
                   IF process_image_raises(call.contours, call.n_points) = "none"
                   THEN process_image(call.contours, call.n_points,
                                      call.density, call.img_shape)
                   ELSE << >>]
    /\ pc' = "done"
    /\ UNCHANGED call
    /\ UNCHANGED gameVars

RebuildNext == CallRebuild

RebuildSpec == RebuildInit /\ [][RebuildNext]_vars

RebuildDone == pc = "done" /\ call.fn = "process_image"

\* The sampled points B and the interior points I of the i-th contour of the
\* call.
Sampled(i) == place_points_on_contour(call.contours[i], call.n_points).points

Interior(i) == generate_interior_points(Sampled(i), call.img_shape, call.density)

\* The Delaunay triangles over B and I of the i-th contour that pass the
\* raster and centre filter.
KeptTriangles(i) ==
    {t \in DelaunayTriangles(Sampled(i) \o Interior(i)) :
        triangle_kept(t, Sampled(i), call.img_shape)}

RECURSIVE SumOver(_, _)
SumOver(S, n) ==
    IF S = {} THEN 0
    ELSE LET i == CHOOSE j \in S : TRUE
         IN  n[i] + SumOver(S \ {i}, n)

\* The number of triangles the contours in S have between them.
TriangleCount(S) ==
    SumOver(S, [i \in 1..Len(call.contours) |-> Cardinality(KeptTriangles(i))])

\* C12 (as claimed): the rebuild completes, and only the contours with at
\* least 3 sampled points and at least 3 interior points contribute
\* triangles: a contour with fewer of either contributes none.
C12_FewPointsNoTriangles ==
    RebuildDone
        => /\ ret.raised = "none"
           /\ Len(ret.triangles) =
                  TriangleCount({i \in 1..Len(call.contours) :
                                    Len(Sampled(i)) >= 3 /\ Len(Interior(i)) >= 3})

\* C12 (amended): the rebuild completes, a contour with fewer than 3 sampled
\* points contributes no triangles, and every contour with at least 3 sampled
\* points contributes its filtered Delaunay triangles, however few interior
\* points it has.
C12_FewSampledNoTriangles ==
    RebuildDone
        => /\ ret.raised = "none"
           /\ Len(ret.triangles) =
                  TriangleCount({i \in 1..Len(call.contours) :
                                    Len(Sampled(i)) >= 3})

\* C12 witness: a rebuild over two contours that yielded fewer than 3 sampled
\* points each.
C12_Witness ==
    /\ RebuildDone
    /\ Len(call.contours) = 2
    /\ \A i \in 1..2 : Len(Sampled(i)) < 3
    /\ ret.raised = "none"
    /\ ret.triangles = << >>

\* The triangle list of the i-th contour of the call built alone: the rebuild
\* of an image in which it is the only contour.
BuiltAlone(i) ==
    process_image(<<call.contours[i]>>, call.n_points, call.density,
                  call.img_shape)

RECURSIVE ConcatUpTo(_, _)
ConcatUpTo(f, n) == IF n = 0 THEN << >> ELSE ConcatUpTo(f, n - 1) \o f[n]

\* C13: after process_image the mesh is the concatenation, in the order of
\* the contours, of the triangle lists the contours yield when built alone;
\* a contour that fails or yields nothing changes no other contour's
\* triangles, and the positions in the mesh are contiguous in that order.
C13_MeshIsConcatenation ==
    RebuildDone
        => /\ ret.raised = "none"
           /\ ret.triangles =
                  ConcatUpTo([i \in 1..Len(call.contours) |-> BuiltAlone(i)],
                             Len(call.contours))

\* C13 witness: the first of two contours has 3 or more sampled points on
\* which the Delaunay call fails, and the triangles of the second follow in
\* the mesh.
C13_Witness ==
    /\ RebuildDone
    /\ Len(call.contours) = 2
    /\ Len(Sampled(1)) >= 3
    /\ try_raises(Sampled(1) \o Interior(1)) = "QhullError"
    /\ BuiltAlone(2) # << >>
    /\ ret.triangles = BuiltAlone(2)

-----------------------------------------------------------------------------
(* The command-line mode of main() (main.py, lines 642-670): the point      *)
(* count and the density of the arguments are assigned to the triangulator  *)
(* and the image is processed.  Init draws the arguments, the one action    *)
(* runs main.                                                               *)

\* utils.validate_parameters (lines 154-185), for integer arguments: whether
\* the parameters are accepted.  main() does not call it.
validate_parameters(n_points, density) ==
    IF n_points < 3 THEN FALSE
    ELSE IF n_points > 200 THEN FALSE
    ELSE IF density < 1 THEN FALSE
    ELSE IF density > 50 THEN FALSE
    ELSE TRUE

\* Values of --points: the default 25, both bounds of the game and values
\* outside them.
CliPointCounts == {2, 5, 10, 25, 30, 100, 105}

\* Values of --density: the default 8, both bounds of the game and values
\* outside them.
CliDensities == {1, 2, 8, 20, 21}

CliCalls ==
    [fn : {"main"}, image : 1..Len(image_files),
     points : CliPointCounts, density : CliDensities]

CliInit ==
    /\ pc = "call"
    /\ call \in CliCalls
    /\ ret = "none"
    /\ Constructed

\* main() with arguments: lines 656-657 assign the parameters as given, line
\* 660 processes the image; ret is the list of triangles drawn.
CallMain ==
    /\ pc = "call"
    /\ call.fn = "main"
    /\ n_contour_points' = call.points
    /\ interior_density' = call.density
    /\ ret' = process_image(image_files[call.image], call.points,
                            call.density, image_shape)
    /\ pc' = "done"
    /\ UNCHANGED <<call, original_image, image_selected, running, triangles,
                   triangle_colors, current_color_index, dragging_contour,
                   dragging_interior, density_window_visible, lbutton_down>>

CliNext == CallMain

CliSpec == CliInit /\ [][CliNext]_vars

\* C20: the parameters a mesh is built with are within the bounds, a request
\* outside them being clamped to the nearest bound: after main() has taken
\* --points and --density, 10 <= n_contour_points <= 100 and
\* 2 <= interior_density <= 20.
C20_ParametersWithinBounds ==
    (pc = "done" /\ call.fn = "main")
        => /\ min_contour_points <= n_contour_points
           /\ n_contour_points <= max_contour_points
           /\ min_interior_density <= interior_density
           /\ interior_density <= max_interior_density

=============================================================================
